---- MODULE Spec2Model ----
(***************************************************************************)
(* Model of the prospect scanner's qualification and idempotent-publishing *)
(* pipeline: IdempotencyManifest (idempotency.py), ProspectQualifier       *)
(* (reasoning/qualifier.py), HTMLUpdater (outputs/html_updater.py) and the *)
(* two entry points run_scan.run_scan and ProspectAgent.run.               *)
(*                                                                         *)
(* Text that is hashed or measured (organization names, urls) is a         *)
(* sequence of one-character strings.  Text that is only searched for      *)
(* keywords is the set of the keywords that occur in it.                   *)
(***************************************************************************)
EXTENDS Integers, Sequences, FiniteSets, TLC

VARIABLES
    hcalls,     \* the _hash calls made so far: <<[org, url, id], ...>>
    file,       \* the manifest file on disk
    manifest,   \* the live IdempotencyManifest instance (self.data)
    now,        \* the wall clock read by datetime.now()
    marked,     \* history: the (org, url) pairs mark_seen has completed for
    last,       \* history: the last manifest call, its arguments and result
    scall,      \* the last _calculate_scores call on a single criterion
    qcall,      \* the last qualify call: config, article and result
    doc,        \* the HTML document at config['output']['html_file']
    pjson,      \* the prospects JSON file at config['output']['prospects_json']
    history,    \* the scan history file
    runs,       \* the number of pipeline runs so far
    published,  \* history: the ids of the prospects handed to update so far
    processed,  \* history: the articles earlier non-dry run_scan runs went through
    lastrun,    \* history: the last pipeline run and what it called
    ucall,      \* history: the last direct HTMLUpdater.update call
    hlog        \* history: every entry record_scan_history was given, in order

pipeVars == <<doc, pjson, history, runs, published, processed, lastrun, ucall, hlog>>

vars == <<hcalls, file, manifest, now, marked, last, scall, qcall, pipeVars>>

(***************************************************************************)
(* Bounds                                                                  *)
(***************************************************************************)
MaxLen == 2       \* longest org / url handed to _hash directly
MaxBatch == 2     \* longest list handed to filter_new
MaxClock == 2     \* last clock value
MaxWeight == 120  \* largest weight of the single criterion scored alone
MaxTerms == 5     \* most vocabulary terms in one article text
MaxArticles == 2  \* most articles the feeds deliver to one run
MaxRuns == 2      \* most pipeline runs
MaxDocLen == 3    \* most pieces of markup in a document update is tried on
MaxUpdates == 2   \* most direct calls of update on one document
MaxWrites == 2    \* most direct calls of record_scan_history on one file

(***************************************************************************)
(* Strings                                                                 *)
(***************************************************************************)
LowerMap ==
    [A |-> "a", B |-> "b", C |-> "c", D |-> "d", E |-> "e", F |-> "f",
     G |-> "g", H |-> "h", I |-> "i", J |-> "j", K |-> "k", L |-> "l",
     M |-> "m", N |-> "n", O |-> "o", P |-> "p", Q |-> "q", R |-> "r",
     S |-> "s", T |-> "t", U |-> "u", V |-> "v", W |-> "w", X |-> "x",
     Y |-> "y", Z |-> "z"]

\* str.lower()
lower(s) ==
    [i \in 1..Len(s) |-> IF s[i] \in DOMAIN LowerMap THEN LowerMap[s[i]] ELSE s[i]]

IsSpace(c) == c \in {" ", "\t", "\n"}

RECURSIVE lstrip(_)
lstrip(s) ==
    IF s # <<>> /\ IsSpace(Head(s)) THEN lstrip(Tail(s)) ELSE s

RECURSIVE rstrip(_)
rstrip(s) ==
    IF s # <<>> /\ IsSpace(s[Len(s)]) THEN rstrip(SubSeq(s, 1, Len(s) - 1)) ELSE s

\* str.strip()
strip(s) == rstrip(lstrip(s))

(***************************************************************************)
(* IdempotencyManifest._hash                                               *)
(***************************************************************************)
\* key = f"{org_name.strip().lower()}|{source_url.strip().lower()}"
HashKey(org_name, source_url) ==
    lower(strip(org_name)) \o <<"|">> \o lower(strip(source_url))

\* hashlib.sha256(key.encode()).hexdigest()[:16].  The digest is idealised as
\* collision-free: it is a tagged copy of the key, so two ids are equal exactly
\* when the two keys are equal.
sha256_hexdigest16(key) == <<"sha256:">> \o key

_hash(org_name, source_url) == sha256_hexdigest16(HashKey(org_name, source_url))

(***************************************************************************)
(* IdempotencyManifest                                                     *)
(***************************************************************************)
EmptyDict == <<>>

DictPut(d, k, v) == [x \in (DOMAIN d) \cup {k} |-> IF x = k THEN v ELSE d[x]]

\* self.data.  has_prospects: self.data['prospects'] is there and is a dict.
\* {'version': 1, 'prospects': {}} is FreshData.
FreshData == [has_prospects |-> TRUE, prospects |-> EmptyDict]

NoInstance == [open |-> FALSE, has_prospects |-> TRUE, prospects |-> EmptyDict]

\* a _load that starts from a fresh store whatever the file holds
_load_fresh(f) == FreshData

\* _load: whatever json.load returns when the file exists and is JSON, else a
\* fresh store.  A file of kind "malformed" is JSON without a 'prospects'
\* dict ({} for one): json.load returns it as it is.
_load(f) ==
    CASE f.kind = "ok" -> [has_prospects |-> TRUE, prospects |-> f.prospects]
      [] f.kind = "malformed" -> [has_prospects |-> FALSE, prospects |-> EmptyDict]
      [] OTHER -> FreshData

\* a _save that leaves the file as it was
_save_lost(f, prospects) == f

\* _save: the whole of self.data is written over the file
_save(f, prospects) == [kind |-> "ok", prospects |-> prospects]

\* __init__: self.data = self._load()
Construct(f) ==
    [open |-> TRUE, has_prospects |-> _load(f).has_prospects,
     prospects |-> _load(f).prospects]

\* self.data['prospects'] raises KeyError (TypeError) on data of another shape
Raises(data) == ~data.has_prospects

is_new(prospects, org_name, source_url) ==
    _hash(org_name, source_url) \notin DOMAIN prospects

ManifestEntry(org_name, source_url, score, t) ==
    [org |-> org_name, url |-> source_url, score |-> score, first_seen |-> t]

\* a mark_seen that stores the entry under the key as given, not normalized
mark_seen_rawkey(st, org_name, source_url, score, t) ==
    LET stored == DictPut(st.prospects,
                          sha256_hexdigest16(org_name \o <<"|">> \o source_url),
                          ManifestEntry(org_name, source_url, score, t))
    IN  [prospects |-> stored, file |-> _save(st.file, stored)]

\* mark_seen: self.data['prospects'][prospect_id] = {...}; self._save().
\* The state is the pair of the in-memory store and the file.
mark_seen(st, org_name, source_url, score, t) ==
    LET stored == DictPut(st.prospects, _hash(org_name, source_url),
                          ManifestEntry(org_name, source_url, score, t))
    IN  [prospects |-> stored, file |-> _save(st.file, stored)]

\* filter_new: the loop over the inputs, left to right.  acc is new_prospects.
RECURSIVE filter_new_loop(_, _, _, _)
filter_new_loop(st, ps, acc, t) ==
    IF ps = <<>>
    THEN [st |-> st, new_prospects |-> acc]
    ELSE LET p == Head(ps)
             org == p.organization
             url == p.source_url
         IN  IF is_new(st.prospects, org, url)
             THEN filter_new_loop(mark_seen(st, org, url, p.qualification_score, t),
                                  Tail(ps), Append(acc, p), t)
             ELSE filter_new_loop(st, Tail(ps), acc, t)

\* a filter_new that keeps the new inputs and marks none of them
filter_new_unmarked(st, ps, t) ==
    [st |-> st,
     new_prospects |->
         SelectSeq(ps, LAMBDA p : is_new(st.prospects, p.organization, p.source_url))]

filter_new(st, ps, t) == filter_new_loop(st, ps, <<>>, t)

\* the id of a prospect dict
HashOf(p) == _hash(p.organization, p.source_url)

\* count
count(prospects) == Cardinality(DOMAIN prospects)

(***************************************************************************)
(* HTMLUpdater.  The document is a sequence of tokens: the two status      *)
(* paragraphs, the places the insertion patterns look for, cards, batch    *)
(* comments and other markup.                                              *)
(***************************************************************************)
Tok(t) == [t |-> t]

NoDocument == [exists |-> FALSE, body |-> <<>>]

\* the scan-result message of _update_timestamp
ResultMsg(prospect_count) ==
    IF prospect_count > 0
    THEN [added |-> prospect_count, plural |-> (prospect_count # 1)]
    ELSE [added |-> 0, plural |-> FALSE]

\* _update_timestamp: re.sub on both status paragraphs, every occurrence
_update_timestamp(body, prospect_count, t) ==
    [i \in DOMAIN body |->
        IF body[i].t = "scan-timestamp" THEN [t |-> "scan-timestamp", at |-> t]
        ELSE IF body[i].t = "scan-result"
             THEN [t |-> "scan-result", msg |-> ResultMsg(prospect_count)]
             ELSE body[i]]

\* a record_scan that writes a banner into a new file when there is none
record_scan_creates(d, prospect_count, t) ==
    IF ~d.exists
    THEN [doc |-> [exists |-> TRUE,
                   body |-> <<[t |-> "scan-timestamp", at |-> t],
                              [t |-> "scan-result", msg |-> ResultMsg(prospect_count)]>>],
          ok |-> TRUE]
    ELSE [doc |-> [exists |-> TRUE, body |-> _update_timestamp(d.body, prospect_count, t)],
          ok |-> TRUE]

\* record_scan
record_scan(d, prospect_count, t) ==
    IF ~d.exists THEN [doc |-> d, ok |-> FALSE]
    ELSE [doc |-> [exists |-> TRUE, body |-> _update_timestamp(d.body, prospect_count, t)],
          ok |-> TRUE]

\* _generate_prospect_cards: one card per prospect, in order
_generate_prospect_cards(prospects) ==
    [i \in DOMAIN prospects |->
        [t |-> "card", org |-> prospects[i].organization, url |-> prospects[i].source_url]]

TokAt(body, i) == IF i \in DOMAIN body THEN body[i].t ELSE "end"

\* the text after </section> that pattern 1 asks for, at token j
SectionFollower(body, j) ==
    \/ TokAt(body, j) \in {"tier-partners", "removed-section", "footer"}
    \/ /\ TokAt(body, j) = "div-close"
       /\ TokAt(body, j + 1) = "div-close"
       /\ TokAt(body, j + 2) = "script"

\* tokens that begin with <!-- and tokens that end with -->
StartsComment(tok) == tok \in {"comment", "batch", "card"}
EndsComment(tok) == tok \in {"comment", "batch"}

\* insertion_patterns[k-1] matches at token i.  In pattern 1 the optional
\* (?:<!--.*?-->) runs, under re.DOTALL, from a comment opening to any later
\* comment end that a follower comes right after.
PatternAt(k, body, i) ==
    CASE k = 1 ->
            /\ TokAt(body, i) = "section-close"           \* </div> </section>
            /\ \/ SectionFollower(body, i + 1)
               \/ /\ StartsComment(TokAt(body, i + 1))
                  /\ \E j \in (i + 2)..Len(body) :
                         EndsComment(TokAt(body, j - 1)) /\ SectionFollower(body, j)
      [] k = 2 -> TokAt(body, i) = "removed-section"
      [] k = 3 -> TokAt(body, i) = "footer"
      [] k = 4 -> TokAt(body, i) = "div-close" /\ TokAt(body, i + 1) = "script"

NoMatch == 0

\* re.search: the leftmost match of pattern k, NoMatch if there is none
Search(k, body) ==
    LET hits == {i \in DOMAIN body : PatternAt(k, body, i)}
    IN  IF hits = {} THEN NoMatch ELSE CHOOSE i \in hits : \A j \in hits : i <= j

InsertAt(body, i, batch) ==
    SubSeq(body, 1, i - 1) \o batch \o SubSeq(body, i, Len(body))

\* html_content.replace('</body>', batch + '</body>'): every occurrence
RECURSIVE ReplaceBodyClose(_, _)
ReplaceBodyClose(body, batch) ==
    IF body = <<>> THEN <<>>
    ELSE IF Head(body).t = "body-close"
         THEN batch \o <<Head(body)>> \o ReplaceBodyClose(Tail(body), batch)
         ELSE <<Head(body)>> \o ReplaceBodyClose(Tail(body), batch)

NumPatterns == 4

RECURSIVE InsertBatch(_, _, _)
InsertBatch(body, batch, k) ==
    IF k > NumPatterns THEN ReplaceBodyClose(body, batch)
    ELSE IF Search(k, body) # NoMatch THEN InsertAt(body, Search(k, body), batch)
    ELSE InsertBatch(body, batch, k + 1)

\* update
update(d, prospects, t) ==
    IF ~d.exists THEN [doc |-> d, ok |-> FALSE]
    ELSE LET batch == <<[t |-> "batch", at |-> t]>> \o _generate_prospect_cards(prospects)
         IN  [doc |-> [exists |-> TRUE, body |-> InsertBatch(d.body, batch, 1)],
              ok |-> TRUE]

(***************************************************************************)
(* The files beside the manifest                                           *)
(***************************************************************************)
HistoryCap == 100

\* a record_scan_history that trims with history[:100]
record_scan_history_keep_first(h, entry) ==
    LET loaded == IF h.kind = "ok" THEN h.entries ELSE <<>>
        appended == Append(loaded, entry)
        kept == IF Len(appended) > HistoryCap
                THEN SubSeq(appended, 1, HistoryCap)
                ELSE appended
    IN  IF h.kind = "malformed" THEN h
        ELSE [kind |-> "ok", entries |-> kept]

\* record_scan_history: load (a fresh list when missing or corrupt), append,
\* keep the last 100, write.  A file that parses to something other than a
\* list ("malformed") makes history.append raise, and nothing is written.
record_scan_history(h, entry) ==
    LET loaded == IF h.kind = "ok" THEN h.entries ELSE <<>>
        appended == Append(loaded, entry)
        kept == IF Len(appended) > HistoryCap
                THEN SubSeq(appended, Len(appended) - HistoryCap + 1, Len(appended))
                ELSE appended
    IN  IF h.kind = "malformed" THEN h
        ELSE [kind |-> "ok", entries |-> kept]

PipelineIdle ==
    /\ doc = NoDocument
    /\ pjson = [kind |-> "missing", records |-> <<>>]
    /\ history = [kind |-> "missing", entries |-> <<>>]
    /\ runs = 0
    /\ published = {}
    /\ processed = {}
    /\ lastrun = [entry |-> "none"]
    /\ ucall = [op |-> "none", n |-> 0]
    /\ hlog = <<>>

(***************************************************************************)
(* ProspectQualifier                                                       *)
(***************************************************************************)
\* sub in s, for strings
Contains(s, sub) ==
    \E i \in 1..(Len(s) - Len(sub) + 1) : SubSeq(s, i, i + Len(sub) - 1) = sub

HasSpace(s) == \E i \in DOMAIN s : s[i] = " "

\* re.sub(r'\s+', ' ', s)
RECURSIVE collapse_ws(_)
collapse_ws(s) ==
    IF s = <<>> THEN <<>>
    ELSE IF IsSpace(Head(s))
         THEN <<" ">> \o collapse_ws(lstrip(s))
         ELSE <<Head(s)>> \o collapse_ws(Tail(s))

\* the number of list elements that occur in the text; the text is the set of
\* the terms that occur in the lower-cased full text
CountIn(keywords, text) == Cardinality({i \in DOMAIN keywords : keywords[i] \in text})

healthcare_terms ==
    <<"health", "hospital", "patient", "clinical", "medical", "ehr",
      "epic", "cerner", "physician", "nurse", "care coordination", "medicare",
      "medicaid", "hipaa", "pharmacy", "diagnosis", "treatment", "surgery",
      "telehealth", "biotech", "pharma", "fda", "drug", "therapy",
      "wellness", "mental health">>

bfsi_terms ==
    <<"bank", "banking", "financial", "insurance", "insurer", "underwriting",
      "fintech", "payment", "lending", "credit", "deposits", "mortgage",
      "wealth management", "asset management", "hedge fund", "private equity", "trading", "securities",
      "compliance", "pci dss", "sox", "ffiec", "glba", "claims",
      "premium", "policyholder", "actuarial">>

StrBfsi == <<"b", "f", "s", "i">>
StrHealthcare == <<"h", "e", "a", "l", "t", "h", "c", "a", "r", "e">>

\* an _is_domain_relevant that counts the terms of both domains whatever the agent
_is_domain_relevant_unscoped(config, text) ==
    CountIn(healthcare_terms \o bfsi_terms, text) >= 2

\* _is_domain_relevant
_is_domain_relevant(config, text) ==
    LET agent_name == lower(config.agent_name)
        domain_terms ==
            IF Contains(agent_name, StrBfsi) THEN bfsi_terms
            ELSE IF Contains(agent_name, StrHealthcare) THEN healthcare_terms
            ELSE healthcare_terms \o bfsi_terms
    IN  CountIn(domain_terms, text) >= 2

NoOrg == <<>>           \* None: no organization

false_positives ==
    {<<"T", "h", "e">>,
     <<"T", "h", "i", "s">>,
     <<"T", "h", "a", "t">>,
     <<"H", "o", "w">>,
     <<"W", "h", "a", "t">>,
     <<"W", "h", "y">>,
     <<"N", "e", "w">>,
     <<"M", "o", "r", "e">>,
     <<"A", "c", "c", "o", "r", "d", "i", "n", "g">>,
     <<"B", "r", "e", "a", "k", "i", "n", "g">>,
     <<"R", "e", "p", "o", "r", "t">>,
     <<"S", "t", "u", "d", "y">>,
     <<"U", "p", "d", "a", "t", "e">>,
     <<"S", "t", "a", "g", "e">>,
     <<"P", "r", "a", "c", "t", "i", "c", "e">>,
     <<"V", "i", "r", "t", "u", "a", "l">>,
     <<"D", "i", "g", "i", "t", "a", "l">>}

\* the last of the longest matches
LongestLast(matches) ==
    LET best == CHOOSE i \in DOMAIN matches :
                    /\ \A j \in DOMAIN matches : Len(matches[j]) <= Len(matches[i])
                    /\ \A j \in DOMAIN matches : j > i => Len(matches[j]) < Len(matches[i])
    IN  matches[best]

\* max(matches, key=len): the first of the longest matches
LongestFirst(matches) ==
    LET best == CHOOSE i \in DOMAIN matches :
                    /\ \A j \in DOMAIN matches : Len(matches[j]) <= Len(matches[i])
                    /\ \A j \in 1..(i - 1) : Len(matches[j]) < Len(matches[i])
    IN  matches[best]

KnownCompanyPattern == 4     \* patterns[3], the well-known company names

\* _extract_organization.  found[i] is re.findall(patterns[i-1], title + " " +
\* summary, re.IGNORECASE), for the five patterns in their order.
RECURSIVE extract_from(_, _)
extract_from(found, i) ==
    IF i > Len(found) THEN NoOrg
    ELSE IF found[i] = <<>> THEN extract_from(found, i + 1)
    ELSE LET org == collapse_ws(strip(LongestFirst(found[i])))
         IN  IF /\ Len(org) > 5
                /\ org \notin false_positives
                /\ Len(org) <= 60
                /\ (HasSpace(org) \/ i = KnownCompanyPattern)
             THEN org
             ELSE extract_from(found, i + 1)

_extract_organization(article) == extract_from(article.found, 1)

garbage_words ==
    {<<"s", "t">>,
     <<"n", "d">>,
     <<"r", "d">>,
     <<"t", "h">>,
     <<"t", "h", "e">>,
     <<"a">>,
     <<"a", "n">>,
     <<"h", "o", "w">>,
     <<"w", "h", "a", "t">>,
     <<"w", "h", "y">>,
     <<"n", "e", "w">>,
     <<"m", "o", "r", "e">>,
     <<"t", "o", "p">>,
     <<"b", "e", "s", "t">>,
     <<"r", "e", "p", "o", "r", "t">>,
     <<"s", "t", "u", "d", "y">>,
     <<"s", "u", "r", "v", "e", "y">>,
     <<"a", "n", "a", "l", "y", "s", "i", "s">>,
     <<"u", "p", "d", "a", "t", "e">>,
     <<"b", "r", "e", "a", "k", "i", "n", "g">>,
     <<"g", "o", "o", "g", "l", "e">>,
     <<"a", "p", "p", "l", "e">>,
     <<"m", "e", "t", "a">>,
     <<"m", "i", "c", "r", "o", "s", "o", "f", "t">>,
     <<"a", "m", "a", "z", "o", "n">>,
     <<"a", "c", "c", "o", "r", "d", "i", "n", "g">>,
     <<"p", "r", "a", "c", "t", "i", "c", "e">>,
     <<"s", "t", "a", "g", "e">>,
     <<"v", "i", "r", "t", "u", "a", "l">>,
     <<"d", "i", "g", "i", "t", "a", "l">>,
     <<"a", "p", "p", "e", "a", "r", "e", "d">>,
     <<"f", "i", "r", "s", "t">>,
     <<"l", "a", "s", "t">>,
     <<"n", "e", "x", "t">>,
     <<"e", "v", "e", "r", "y">>,
     <<"o", "v", "e", "r", "a", "l", "l">>}

IndustrySignalSuffix == <<" ", "(", "I", "n", "d", "u", "s", "t", "r", "y", " ", "S", "i", "g", "n", "a", "l", ")">>

\* the text before the first whitespace
RECURSIVE FirstWord(_)
FirstWord(s) ==
    IF s = <<>> \/ IsSpace(Head(s)) THEN <<>> ELSE <<Head(s)>> \o FirstWord(Tail(s))

\* re.match(r'^(word1|word2|...)\s', s, re.IGNORECASE) for one of the garbage patterns
MatchesGarbage(s) ==
    /\ Len(FirstWord(s)) < Len(s)
    /\ lower(FirstWord(s)) \in garbage_words

\* _extract_fallback_org.  article.title_lead is group 1 of the match of
\* ^([A-Z][a-zA-Z]+(?:\s+[A-Z][a-zA-Z]+){0,3}) on the title, NoOrg if none.
_extract_fallback_org(article) ==
    IF article.title_lead = NoOrg THEN NoOrg
    ELSE LET potential_org == strip(article.title_lead)
         IN  IF MatchesGarbage(potential_org) THEN NoOrg
             ELSE IF /\ Len(potential_org) >= 6
                     /\ HasSpace(potential_org)
                     /\ Len(potential_org) <= 50
                  THEN potential_org \o IndustrySignalSuffix
                  ELSE NoOrg

\* the largest power of two that is at most k, for k >= 1
RECURSIVE Pow2Floor(_)
Pow2Floor(k) == IF k < 2 THEN 1 ELSE 2 * Pow2Floor(k \div 2)

\* the score without the cap of min(match_count / 3, 1.0)
ScoreOf_uncapped(weight, match_count) == (weight * (match_count + 3)) \div 6

\* int(weight * (min(match_count / 3, 1.0) * 0.5 + 0.5)) in IEEE-754 doubles,
\* for a weight >= 0.  The factor is 1.0 from three matches on.  For one match
\* it is the double just below 2/3 and the product truncates to floor(2w/3).
\* For two matches it is the double just below 5/6 (short by 2/3 * 2^-53):
\* when 5w/6 is an integer k, the rounded product is k only if k is at most
\* 5/4 of the power of two below it, and the next double below k otherwise.
ScoreOf(weight, match_count) ==
    IF match_count >= 3 THEN weight
    ELSE IF match_count = 1 THEN (2 * weight) \div 3
    ELSE LET k == (5 * weight) \div 6
         IN  IF (5 * weight) % 6 = 0 /\ k > 0 /\ 4 * k > 5 * Pow2Floor(k)
             THEN k - 1
             ELSE k

\* _calculate_scores: a score for every criterion, keyed by its name
_calculate_scores(config, text) ==
    LET criteria == config.qualification_criteria
        idx(name) == CHOOSE i \in DOMAIN criteria : criteria[i].name = name
    IN  [name \in {criteria[i].name : i \in DOMAIN criteria} |->
            LET c == criteria[idx(name)]
                match_count == CountIn(c.keywords, text)
            IN  IF match_count > 0 THEN ScoreOf(c.weight, match_count) ELSE 0]

\* sum(scores.values())
RECURSIVE SumScores(_, _)
SumScores(scores, names) ==
    IF names = {} THEN 0
    ELSE LET n == CHOOSE x \in names : TRUE
         IN  scores[n] + SumScores(scores, names \ {n})

NegativePenalty == 20

\* _has_negative_signals: the negative_signals of 'managed_services_gap' only
_has_negative_signals(config, text) ==
    \E i \in DOMAIN config.qualification_criteria :
        /\ config.qualification_criteria[i].name = "managed_services_gap"
        /\ CountIn(config.qualification_criteria[i].negative_signals, text) > 0

NoCategory == 0         \* None: the index of no category

\* _determine_category: the index of the first category with a keyword in the
\* text, else the first category, else None
_determine_category(config, text) ==
    LET cats == config.categories
        hits == {i \in DOMAIN cats : CountIn(cats[i].keywords, text) > 0}
    IN  IF hits # {} THEN CHOOSE i \in hits : \A j \in hits : i <= j
        ELSE IF cats # <<>> THEN 1
        ELSE NoCategory

\* _determine_priority
_determine_priority(score) ==
    IF score >= 80 THEN "High" ELSE IF score >= 65 THEN "Medium" ELSE "Standard"

Min(a, b) == IF a <= b THEN a ELSE b

NotQualified == [ok |-> FALSE]    \* qualify returned None

\* scores.get(name, 0)
ScoreGet(scores, name) == IF name \in DOMAIN scores THEN scores[name] ELSE 0

\* ", ".join(wedges): the phrases with a separator between neighbours
RECURSIVE JoinComma(_)
JoinComma(wedges) ==
    IF Len(wedges) <= 1 THEN wedges
    ELSE <<Head(wedges), ", ">> \o JoinComma(Tail(wedges))

\* the triggered phrases of _generate_wedge, before the fallback and the cut
TriggeredWedges(scores, text) ==
    LET is_bfsi == \E term \in {"bank", "insurance", "fintech", "payment", "trading"} :
                       term \in text
    IN  (IF ScoreGet(scores, "cloud_migration") > 10
         THEN <<"Post-migration optimization">> ELSE <<>>)
        \o (IF ScoreGet(scores, "managed_services_gap") > 10
            THEN <<"managed private cloud operations">> ELSE <<>>)
        \o (IF ScoreGet(scores, "ai_infrastructure") > 10
            THEN <<"AI/ML infrastructure management">> ELSE <<>>)
        \o (IF ScoreGet(scores, "compliance_sensitivity") > 8
            THEN (IF is_bfsi THEN <<"PCI/SOX-compliant hosting">>
                  ELSE <<"HIPAA-compliant hosting">>)
            ELSE <<>>)
        \o (IF ScoreGet(scores, "timing_urgency") > 8
            THEN <<"accelerated deployment support">> ELSE <<>>)

\* a _generate_wedge that joins every triggered phrase
_generate_wedge_uncut(config, scores, text) ==
    LET triggered == TriggeredWedges(scores, text)
        wedges == IF triggered = <<>>
                  THEN <<config.rackspace_value_propositions[1]>> ELSE triggered
    IN  JoinComma(wedges)

\* _generate_wedge
_generate_wedge(config, scores, text) ==
    LET triggered == TriggeredWedges(scores, text)
        wedges == IF triggered = <<>>
                  THEN <<config.rackspace_value_propositions[1]>> ELSE triggered
    IN  JoinComma(SubSeq(wedges, 1, Min(3, Len(wedges))))

FallbackFloor == 50

\* a fallback step that still uses the floor of 40
organization_or_fallback_floor40(article, found_org, base_score) ==
    IF found_org # NoOrg THEN found_org
    ELSE IF base_score >= 40 THEN _extract_fallback_org(article)
    ELSE NoOrg

\* qualify, "If no organization found but strong signals, use a fallback"
organization_or_fallback(article, found_org, base_score) ==
    IF found_org # NoOrg THEN found_org
    ELSE IF base_score >= FallbackFloor THEN _extract_fallback_org(article)
    ELSE NoOrg

\* a penalty taken once for every negative signal in the text
apply_penalty_and_boost_per_signal(config, text, base_score) ==
    LET criteria == config.qualification_criteria
        hits == UNION {{<<i, k>> : k \in {k \in DOMAIN criteria[i].negative_signals :
                                              criteria[i].negative_signals[k] \in text}} :
                       i \in {i \in DOMAIN criteria :
                                  criteria[i].name = "managed_services_gap"}}
        penalized == base_score - NegativePenalty * Cardinality(hits)
        category == _determine_category(config, text)
    IN  IF category # NoCategory
        THEN penalized + config.categories[category].priority_boost
        ELSE penalized

\* qualify, steps 3 and 4: the penalty for negative signals, the category boost
apply_penalty_and_boost(config, text, base_score) ==
    LET penalized ==
            IF _has_negative_signals(config, text)
            THEN base_score - NegativePenalty ELSE base_score
        category == _determine_category(config, text)
    IN  IF category # NoCategory
        THEN penalized + config.categories[category].priority_boost
        ELSE penalized

\* a threshold step that lets every total through
below_threshold_never(config, total_score) == FALSE

\* qualify, step 5: total_score < self.config['qualification_threshold']
below_threshold(config, total_score) == total_score < config.qualification_threshold

\* qualify
qualify(config, article) ==
    LET text == article.terms
        found_org == _extract_organization(article)
        scores == _calculate_scores(config, text)
        base_score == SumScores(scores, DOMAIN scores)
        organization == organization_or_fallback(article, found_org, base_score)
        category == _determine_category(config, text)
        total_score == apply_penalty_and_boost(config, text, base_score)
    IN  IF ~_is_domain_relevant(config, text) THEN NotQualified
        ELSE IF organization = NoOrg THEN NotQualified
        ELSE IF below_threshold(config, total_score) THEN NotQualified
        ELSE [ok |-> TRUE,
              organization |-> organization,
              source_url |-> article.url,
              qualification_score |-> Min(total_score, 100),
              score_breakdown |-> scores,
              audit_total |-> total_score,
              rackspace_wedge |-> _generate_wedge(config, scores, text),
              category |-> IF category # NoCategory
                           THEN config.categories[category].name ELSE "none",
              priority |-> _determine_priority(total_score)]

(***************************************************************************)
(* Inputs of the manifest operations                                       *)
(***************************************************************************)
BoundedSeq(S, n) == UNION {[1..k -> S] : k \in 0..n}

OrgAb == <<"A", "b">>
OrgAbVariant == <<" ", "a", "b">>      \* OrgAb in another case, padded
OrgB == <<"B">>
UrlU == <<"u">>
UrlUVariant == <<"U", " ">>            \* UrlU in another case, padded

\* the dicts handed to filter_new: the keys it reads
ProspectPool ==
    {[organization |-> OrgAb, source_url |-> UrlU, qualification_score |-> 70],
     [organization |-> OrgAbVariant, source_url |-> UrlUVariant, qualification_score |-> 80],
     [organization |-> OrgB, source_url |-> UrlU, qualification_score |-> 90]}

PairPool == {<<p.organization, p.source_url>> : p \in ProspectPool}

ScorePool == {0, 70}                   \* mark_seen's score, 0 by default

InitialFiles ==
    {[kind |-> "missing", prospects |-> EmptyDict],
     [kind |-> "corrupt", prospects |-> EmptyDict],
     [kind |-> "malformed", prospects |-> EmptyDict],
     [kind |-> "ok", prospects |-> EmptyDict]}

(***************************************************************************)
(* The manifest as a state machine                                         *)
(***************************************************************************)
Init ==
    /\ hcalls = <<>>
    /\ file \in InitialFiles
    /\ manifest = NoInstance
    /\ now = 0
    /\ marked = {}
    /\ last = [op |-> "none"]
    /\ scall = [called |-> FALSE]
    /\ qcall = [called |-> FALSE]
    /\ PipelineIdle

\* IdempotencyManifest(path): a fresh instance replaces the live one
Open ==
    /\ manifest' = Construct(file)
    /\ last' = [op |-> "open"]
    /\ UNCHANGED <<hcalls, file, now, marked, scall, qcall, pipeVars>>

\* a call that ended in an exception: nothing was stored, nothing written
Raised(call) ==
    /\ last' = [op |-> "raised", call |-> call]
    /\ UNCHANGED <<hcalls, file, manifest, now, marked, scall, qcall, pipeVars>>

IsNew(org, url) ==
    /\ manifest.open
    /\ IF Raises(manifest)
       THEN Raised("is_new")
       ELSE /\ last' = [op |-> "is_new", org |-> org, url |-> url,
                        result |-> is_new(manifest.prospects, org, url),
                        after_open |-> (last.op = "open")]
            /\ UNCHANGED <<hcalls, file, manifest, now, marked, scall, qcall, pipeVars>>

MarkSeen(org, url, score) ==
    /\ manifest.open
    /\ IF Raises(manifest)
       THEN Raised("mark_seen")
       ELSE /\ \E r \in {mark_seen([prospects |-> manifest.prospects, file |-> file],
                                   org, url, score, now)} :
                   /\ manifest' = [open |-> TRUE, has_prospects |-> TRUE,
                                   prospects |-> r.prospects]
                   /\ file' = r.file
            /\ marked' = marked \cup {<<org, url>>}
            /\ last' = [op |-> "mark_seen", org |-> org, url |-> url, score |-> score,
                        before |-> manifest.prospects]
            /\ UNCHANGED <<hcalls, now, scall, qcall, pipeVars>>

\* filter_new touches self.data only inside the loop: an empty list is
\* returned as it is whatever the data
FilterNew(ps) ==
    /\ manifest.open
    /\ IF Raises(manifest) /\ ps # <<>>
       THEN Raised("filter_new")
       ELSE /\ \E r \in {filter_new([prospects |-> manifest.prospects, file |-> file],
                                    ps, now)} :
                   /\ manifest' = [manifest EXCEPT !.prospects = r.st.prospects]
                   /\ file' = r.st.file
                   /\ marked' = marked \cup
                          {<<r.new_prospects[i].organization,
                             r.new_prospects[i].source_url>> :
                               i \in DOMAIN r.new_prospects}
                   /\ last' = [op |-> "filter_new", input |-> ps,
                               before |-> manifest.prospects,
                               result |-> r.new_prospects]
            /\ UNCHANGED <<hcalls, now, scall, qcall, pipeVars>>

\* the count property
Count ==
    /\ manifest.open
    /\ IF Raises(manifest)
       THEN Raised("count")
       ELSE /\ last' = [op |-> "count", result |-> count(manifest.prospects),
                        after_open |-> (last.op = "open")]
            /\ UNCHANGED <<hcalls, file, manifest, now, marked, scall, qcall, pipeVars>>

\* time passes between calls
Tick ==
    /\ now < MaxClock
    /\ now' = now + 1
    /\ UNCHANGED <<hcalls, file, manifest, marked, last, scall, qcall, pipeVars>>

Next ==
    \/ Open
    \/ \E pr \in PairPool : IsNew(pr[1], pr[2])
    \/ \E pr \in PairPool, sc \in ScorePool : MarkSeen(pr[1], pr[2], sc)
    \/ \E ps \in BoundedSeq(ProspectPool, MaxBatch) : FilterNew(ps)
    \/ Count
    \/ Tick

Spec == Init /\ [][Next]_vars

(***************************************************************************)
(* _hash applied to pairs of short strings                                 *)
(***************************************************************************)
Alphabet == {"a", "A", " ", "|"}

HashInputs == BoundedSeq(Alphabet, MaxLen)

InitHash ==
    /\ hcalls = <<>>
    /\ file = [kind |-> "missing", prospects |-> EmptyDict]
    /\ manifest = NoInstance
    /\ now = 0
    /\ marked = {}
    /\ last = [op |-> "none"]
    /\ scall = [called |-> FALSE]
    /\ qcall = [called |-> FALSE]
    /\ PipelineIdle

HashCall(org, url) ==
    /\ Len(hcalls) < 2
    /\ hcalls' = Append(hcalls, [org |-> org, url |-> url, id |-> _hash(org, url)])
    /\ UNCHANGED <<file, manifest, now, marked, last, scall, qcall, pipeVars>>

NextHash == \E org \in HashInputs, url \in HashInputs : HashCall(org, url)

SpecHash == InitHash /\ [][NextHash]_vars

(***************************************************************************)
(* _calculate_scores on one criterion                                      *)
(***************************************************************************)
ScoreKeywords == <<"cloud", "migration", "migrate", "hosting", "datacenter">>

ScoreTexts == SUBSET {ScoreKeywords[i] : i \in DOMAIN ScoreKeywords}

SingleCriterion(weight, keywords) ==
    [qualification_criteria |->
        <<[name |-> "cloud_migration", weight |-> weight, keywords |-> keywords,
           negative_signals |-> <<>>]>>]

InitScore ==
    /\ hcalls = <<>>
    /\ file = [kind |-> "missing", prospects |-> EmptyDict]
    /\ manifest = NoInstance
    /\ now = 0
    /\ marked = {}
    /\ last = [op |-> "none"]
    /\ \E weight \in 0..MaxWeight, k \in 1..Len(ScoreKeywords), text \in ScoreTexts :
           scall = [called |-> FALSE, weight |-> weight,
                    keywords |-> SubSeq(ScoreKeywords, 1, k), text |-> text]
    /\ qcall = [called |-> FALSE]
    /\ PipelineIdle

\* _calculate_scores on the criterion and text drawn at the start
CalculateScores ==
    /\ ~scall.called
    /\ scall' = [scall EXCEPT !.called = TRUE] @@
                [match_count |-> CountIn(scall.keywords, scall.text),
                 score |-> _calculate_scores(
                               SingleCriterion(scall.weight, scall.keywords),
                               scall.text)["cloud_migration"]]
    /\ UNCHANGED <<hcalls, file, manifest, now, marked, last, qcall, pipeVars>>

NextScore == CalculateScores

SpecScore == InitScore /\ [][NextScore]_vars

(***************************************************************************)
(* qualify on a pool of configurations and articles                        *)
(***************************************************************************)
CriteriaOf(w) ==
    <<[name |-> "cloud_migration", weight |-> w[1],
       keywords |-> <<"cloud", "migration", "migrate">>, negative_signals |-> <<>>],
      [name |-> "managed_services_gap", weight |-> w[2],
       keywords |-> <<"managed services", "ehr">>,
       negative_signals |-> <<"aws partnership", "azure partnership">>],
      [name |-> "ai_infrastructure", weight |-> w[3],
       keywords |-> <<"machine learning">>, negative_signals |-> <<"deadline">>],
      [name |-> "compliance_sensitivity", weight |-> w[4],
       keywords |-> <<"hipaa", "compliance">>, negative_signals |-> <<>>],
      [name |-> "timing_urgency", weight |-> w[5],
       keywords |-> <<"deadline">>, negative_signals |-> <<>>]>>

CategoriesOf(b) ==
    <<[name |-> "health_system", keywords |-> <<"hospital">>, priority_boost |-> b[1]],
      [name |-> "banking", keywords |-> <<"bank">>, priority_boost |-> b[2]]>>

WeightProfiles == {<<25, 20, 20, 20, 15>>, <<60, 60, 18, 9, 0>>, <<15, 15, 15, 12, 12>>}
BoostProfiles == {<<15, 0>>, <<-10, 50>>}
Thresholds == {-30, 65, 105}
AgentNames == {<<"H", "e", "a", "l", "t", "h", "c", "a", "r", "e", " ", "S", "c", "a", "n", "n", "e", "r">>,
               <<"B", "F", "S", "I", " ", "S", "c", "a", "n", "n", "e", "r">>,
               <<"S", "c", "a", "n", "n", "e", "r">>,
               <<"B", "F", "S", "I", " ", "H", "e", "a", "l", "t", "h", "c", "a", "r", "e", " ", "S", "c", "a", "n", "n", "e", "r">>}

ValueProps == <<"Private Cloud + Managed Services", "Multicloud operations">>

ConfigPool ==
    {[agent_name |-> a, qualification_criteria |-> CriteriaOf(w),
      categories |-> CategoriesOf(b), qualification_threshold |-> t,
      rackspace_value_propositions |-> ValueProps] :
        a \in AgentNames, w \in WeightProfiles, b \in BoostProfiles, t \in Thresholds}

\* the terms an article text is made of; none is a substring of another
Vocabulary ==
    {"cloud", "migration", "ehr", "aws partnership",
     "azure partnership",
     "machine learning", "hipaa", "compliance", "deadline", "hospital", "bank"}

TextPool == {t \in SUBSET Vocabulary : Cardinality(t) <= MaxTerms}

OrgMercyGroup == <<"M", "e", "r", "c", "y", " ", "G", "r", "o", "u", "p">>
OrgPhilips == <<"P", "h", "i", "l", "i", "p", "s">>
LeadAccenture == <<"A", "c", "c", "e", "n", "t", "u", "r", "e", " ", "F", "e", "d", "e", "r", "a", "l", " ", "S", "e", "r", "v", "i", "c", "e", "s">>
LeadHowThings == <<"H", "o", "w", " ", "T", "h", "i", "n", "g", "s", " ", "W", "o", "r", "k">>
UrlOne == <<"u", "1">>

\* what the patterns find in title and summary, and the capitalized lead of the title
OrgCases ==
    {[found |-> <<<<OrgMercyGroup>>, <<>>, <<>>, <<>>, <<>>>>, title_lead |-> OrgMercyGroup],
     [found |-> <<<<>>, <<>>, <<>>, <<>>, <<>>>>, title_lead |-> LeadAccenture],
     [found |-> <<<<>>, <<>>, <<>>, <<>>, <<>>>>, title_lead |-> LeadHowThings],
     [found |-> <<<<>>, <<>>, <<>>, <<>>, <<>>>>, title_lead |-> NoOrg]}

ArticlePool ==
    {[terms |-> t, found |-> o.found, title_lead |-> o.title_lead, url |-> UrlOne] :
        t \in TextPool, o \in OrgCases}

InitQual ==
    /\ hcalls = <<>>
    /\ file = [kind |-> "missing", prospects |-> EmptyDict]
    /\ manifest = NoInstance
    /\ now = 0
    /\ marked = {}
    /\ last = [op |-> "none"]
    /\ scall = [called |-> FALSE]
    /\ \E config \in ConfigPool, article \in ArticlePool :
           qcall = [called |-> FALSE, config |-> config, article |-> article]
    /\ PipelineIdle

\* qualify on the configuration and article drawn at the start
Qualify ==
    /\ ~qcall.called
    /\ qcall' = [qcall EXCEPT !.called = TRUE] @@
                [result |-> qualify(qcall.config, qcall.article)]
    /\ UNCHANGED <<hcalls, file, manifest, now, marked, last, scall, pipeVars>>

NextQual == Qualify

SpecQual == InitQual /\ [][NextQual]_vars

(***************************************************************************)
(* _extract_organization on the matches of its five patterns               *)
(***************************************************************************)
MaxMatches == 2      \* most matches of one pattern in a text

OrgTenetGroup == <<"T", "e", "n", "e", "t", " ", "G", "r", "o", "u", "p">>
OrgAcmePartners == <<"A", "c", "m", "e", " ", "P", "a", "r", "t", "n", "e", "r", "s">>
OrgCerner == <<"C", "e", "r", "n", "e", "r">>
OrgEpic == <<"E", "p", "i", "c">>
OrgAbcDe == <<"A", "b", "c", " ", "D", "e">>
OrgAbCdWide == <<"A", "b", " ", " ", "C", "d">>
WordAccording == <<"A", "c", "c", "o", "r", "d", "i", "n", "g">>

\* a capitalized word of n letters
LongName(n) == [i \in 1..n |-> IF i = 1 THEN "A" ELSE "a"]

\* 61 characters with one space, and 61 characters of which two are one gap
OrgLongGroup == LongName(55) \o <<" ", "G", "r", "o", "u", "p">>
OrgLongWideGroup == LongName(54) \o <<" ", " ", "G", "r", "o", "u", "p">>

\* re.findall of one pattern: up to MaxMatches matches, in text order
MatchLists(pool) == UNION {[1..n -> pool] : n \in 0..MaxMatches}

SuffixMatches == {OrgMercyGroup, OrgTenetGroup, OrgLongGroup, OrgLongWideGroup}
KnownCompanyMatches == {OrgEpic, OrgCerner}
AnnouncesMatches == {OrgAbcDe, OrgAbCdWide, WordAccording}

FoundPool ==
    {<<suffix, partners, <<>>, known, announces>> :
        suffix \in MatchLists(SuffixMatches),
        partners \in {<<>>, <<OrgAcmePartners>>},
        known \in MatchLists(KnownCompanyMatches),
        announces \in MatchLists(AnnouncesMatches)}

InitExtract ==
    /\ hcalls = <<>>
    /\ file = [kind |-> "missing", prospects |-> EmptyDict]
    /\ manifest = NoInstance
    /\ now = 0
    /\ marked = {}
    /\ last = [op |-> "none"]
    /\ scall = [called |-> FALSE]
    /\ \E found \in FoundPool : qcall = [called |-> FALSE, found |-> found]
    /\ PipelineIdle

\* _extract_organization on the matches drawn at the start
ExtractOrganization ==
    /\ ~qcall.called
    /\ qcall' = [qcall EXCEPT !.called = TRUE] @@
                [result |-> _extract_organization(qcall)]
    /\ UNCHANGED <<hcalls, file, manifest, now, marked, last, scall, pipeVars>>

NextExtract == ExtractOrganization

SpecExtract == InitExtract /\ [][NextExtract]_vars

(***************************************************************************)
(* The domain of a configuration, as ProspectQualifier and HTMLUpdater     *)
(* each detect it                                                          *)
(***************************************************************************)
MaxCards == 2        \* most cards rendered by one HTMLUpdater

StrBFSI == <<"B", "F", "S", "I">>

\* _is_domain_relevant: the branch the agent_name selects
domain_scope(config) ==
    LET agent_name == lower(config.agent_name)
    IN  IF Contains(agent_name, StrBfsi) THEN "bfsi"
        ELSE IF Contains(agent_name, StrHealthcare) THEN "healthcare"
        ELSE "both"

\* HTMLUpdater.__init__: self.is_bfsi
is_bfsi(config) ==
    \/ Contains(lower(config.output.html_file), StrBfsi)
    \/ Contains(config.agent_name, StrBFSI)

\* _generate_single_card: the color variant of a card
primary_color(bfsi) == IF bfsi THEN "var(--blue-primary)" ELSE "var(--plum)"

HtmlFiles ==
    {<<"i", "n", "d", "e", "x", ".", "h", "t", "m", "l">>,
     <<"b", "f", "s", "i", ".", "h", "t", "m", "l">>,
     <<"B", "F", "S", "I", ".", "h", "t", "m", "l">>}

DomainAgentNames ==
    AgentNames \cup
    {<<"B", "f", "s", "i", " ", "S", "c", "a", "n", "n", "e", "r">>,
     <<"b", "f", "s", "i", " ", "s", "c", "a", "n", "n", "e", "r">>}

DomainConfigs ==
    {[agent_name |-> a, output |-> [html_file |-> f]] :
        a \in DomainAgentNames, f \in HtmlFiles}

DomainTexts == {{"hospital", "ehr"}, {"bank", "compliance"}, {"hospital", "bank"}, {"cloud"}}

InitDomain ==
    /\ hcalls = <<>>
    /\ file = [kind |-> "missing", prospects |-> EmptyDict]
    /\ manifest = NoInstance
    /\ now = 0
    /\ marked = {}
    /\ last = [op |-> "none"]
    /\ scall = [called |-> FALSE]
    /\ \E config \in DomainConfigs : qcall = [called |-> FALSE, config |-> config]
    /\ PipelineIdle

\* HTMLUpdater(config)
NewHTMLUpdater ==
    /\ ucall.op = "none"
    /\ ucall' = [op |-> "init", n |-> 0, is_bfsi |-> is_bfsi(qcall.config),
                 colors |-> <<>>]
    /\ UNCHANGED <<hcalls, file, manifest, now, marked, last, scall, qcall, doc, pjson,
                   history, runs, published, processed, lastrun, hlog>>

\* _generate_single_card on the updater built before
GenerateSingleCard ==
    /\ ucall.op # "none"
    /\ ucall.n < MaxCards
    /\ ucall' = [ucall EXCEPT !.op = "card", !.n = @ + 1,
                              !.colors = Append(@, primary_color(ucall.is_bfsi))]
    /\ UNCHANGED <<hcalls, file, manifest, now, marked, last, scall, qcall, doc, pjson,
                   history, runs, published, processed, lastrun, hlog>>

\* ProspectQualifier(config)._is_domain_relevant(text)
IsDomainRelevant(text) ==
    /\ qcall' = [called |-> TRUE, config |-> qcall.config, text |-> text,
                 scope |-> domain_scope(qcall.config),
                 relevant |-> _is_domain_relevant(qcall.config, text)]
    /\ UNCHANGED <<hcalls, file, manifest, now, marked, last, scall, pipeVars>>

NextDomain ==
    \/ NewHTMLUpdater
    \/ GenerateSingleCard
    \/ \E text \in DomainTexts : IsDomainRelevant(text)

SpecDomain == InitDomain /\ [][NextDomain]_vars

(***************************************************************************)
(* The two entry points: run_scan.run_scan and ProspectAgent.run           *)
(***************************************************************************)
PipelineConfig ==
    [agent_name |-> <<"H", "e", "a", "l", "t", "h", "c", "a", "r", "e", " ", "S", "c", "a", "n", "n", "e", "r">>,
     qualification_criteria |-> CriteriaOf(<<25, 20, 20, 20, 15>>),
     categories |-> CategoriesOf(<<15, 0>>),
     qualification_threshold |-> 65,
     rackspace_value_propositions |-> ValueProps]

OrgMercyGroupUpper == <<"M", "E", "R", "C", "Y", " ", "G", "R", "O", "U", "P">>
OrgSummitClinic == <<"S", "u", "m", "m", "i", "t", " ", "C", "l", "i", "n", "i", "c">>
UrlOneUpper == <<"U", "1">>
UrlTwo == <<"u", "2">>

StrongTerms == {"cloud", "migration", "migrate", "ehr", "hospital", "hipaa"}

\* the articles the feeds deliver, in feed order: two tellings of one story
\* whose organization and url differ in case only, another story about the same
\* organization at another url, and one that does not qualify
FeedOrder ==
    <<[terms |-> StrongTerms, found |-> <<<<OrgMercyGroup>>, <<>>, <<>>, <<>>, <<>>>>,
       title_lead |-> OrgMercyGroup, url |-> UrlOne],
      [terms |-> StrongTerms, found |-> <<<<OrgMercyGroupUpper>>, <<>>, <<>>, <<>>, <<>>>>,
       title_lead |-> OrgMercyGroupUpper, url |-> UrlOneUpper],
      [terms |-> StrongTerms, found |-> <<<<OrgMercyGroup>>, <<>>, <<>>, <<>>, <<>>>>,
       title_lead |-> OrgMercyGroup, url |-> UrlTwo],
      [terms |-> {"hospital", "hipaa"}, found |-> <<<<OrgSummitClinic>>, <<>>, <<>>, <<>>, <<>>>>,
       title_lead |-> OrgSummitClinic, url |-> UrlOne]>>

FeedArticles == {FeedOrder[i] : i \in DOMAIN FeedOrder}

\* the documents a run may find
DocPool ==
    {NoDocument,
     [exists |-> TRUE,
      body |-> <<[t |-> "scan-timestamp", at |-> 0], [t |-> "scan-result", msg |-> ResultMsg(0)],
                 Tok("other"), Tok("section-close"), Tok("footer"), Tok("body-close")>>],
     [exists |-> TRUE,
      body |-> <<[t |-> "scan-timestamp", at |-> 0], [t |-> "scan-result", msg |-> ResultMsg(0)],
                 Tok("other"), Tok("body-close")>>],
     [exists |-> TRUE, body |-> <<Tok("other")>>]}

\* the prospects of the articles that qualify, in article order
RECURSIVE QualifyAll(_, _)
QualifyAll(config, articles) ==
    IF articles = <<>> THEN <<>>
    ELSE LET prospect == qualify(config, Head(articles))
         IN  (IF prospect.ok THEN <<prospect>> ELSE <<>>)
                 \o QualifyAll(config, Tail(articles))

IdsOf(prospects) == {HashOf(prospects[i]) : i \in DOMAIN prospects}

CardsIn(d) == SelectSeq(d.body, LAMBDA tok : tok.t = "card")

\* the prospects JSON file as run_scan reads it: [] when missing or corrupt
LoadProspects(f) == IF f.kind = "ok" THEN f.records ELSE <<>>

InitPipeline ==
    /\ hcalls = <<>>
    /\ file \in {[kind |-> "missing", prospects |-> EmptyDict],
                 [kind |-> "corrupt", prospects |-> EmptyDict],
                 [kind |-> "malformed", prospects |-> EmptyDict]}
    /\ manifest = NoInstance
    /\ now = 0
    /\ marked = {}
    /\ last = [op |-> "none"]
    /\ scall = [called |-> FALSE]
    /\ qcall = [called |-> FALSE]
    /\ doc \in DocPool
    /\ pjson \in {[kind |-> "missing", records |-> <<>>],
                  [kind |-> "corrupt", records |-> <<>>]}
    /\ history = [kind |-> "missing", entries |-> <<>>]
    /\ runs = 0
    /\ published = {}
    /\ processed = {}
    /\ lastrun = [entry |-> "none"]
    /\ ucall = [op |-> "none", n |-> 0]
    /\ hlog = <<>>

\* run_scan(config_path, dry_run=True): qualifies and returns, writes nothing
RunScanDry(articles) ==
    /\ runs < MaxRuns
    /\ runs' = runs + 1
    /\ \E qualified \in {QualifyAll(PipelineConfig, articles)} :
           lastrun' = [entry |-> "run_scan", dry_run |-> TRUE, crashed |-> FALSE,
                       qualified_count |-> Len(qualified),
                       filter_called |-> FALSE, update_called |-> FALSE,
                       record_scan_calls |-> 0,
                       doc_before |-> doc,
                       records_before |-> LoadProspects(pjson),
                       history_before |-> history.entries]
    /\ UNCHANGED <<hcalls, file, manifest, now, marked, last, scall, qcall,
                   doc, pjson, history, published, processed, ucall, hlog>>

\* run_scan, "Step 3: Update HTML": record_scan always, update when the list
\* is not empty
run_scan_publish(d, new_prospects, t) ==
    LET banner == record_scan(d, Len(new_prospects), t)
        inserted == IF new_prospects # <<>>
                    THEN update(banner.doc, new_prospects, t)
                    ELSE [doc |-> banner.doc, ok |-> FALSE]
    IN  [doc |-> inserted.doc, record_scan_calls |-> 1, record_ok |-> banner.ok,
         update_called |-> (new_prospects # <<>>), update_ok |-> inserted.ok]

\* the dicts run_scan appends to the prospects JSON
WithAddedDate(prospects, t) ==
    [i \in DOMAIN prospects |->
        [organization |-> prospects[i].organization,
         source_url |-> prospects[i].source_url,
         added_date |-> t]]

\* run_scan(config_path): qualify, filter_new on a fresh manifest, record_scan,
\* update when something is new, append to the prospects JSON, record the scan.
\* The website enrichment in between adds a 'website_data' key to each prospect
\* and leaves the keys modelled here alone.  When the manifest data has no
\* 'prospects' dict, filter_new raises on the first prospect and the run ends
\* there, with nothing written.
RunScan(articles) ==
    /\ runs < MaxRuns
    /\ runs' = runs + 1
    /\ \E qualified \in {QualifyAll(PipelineConfig, articles)} :
       \E opened \in {Construct(file)} :
       IF Raises(opened) /\ qualified # <<>>
       THEN /\ manifest' = opened
            /\ last' = [op |-> "raised", call |-> "filter_new"]
            /\ lastrun' = [entry |-> "run_scan", dry_run |-> FALSE, crashed |-> TRUE,
                           qualified_count |-> Len(qualified),
                           filter_called |-> TRUE, update_called |-> FALSE,
                           record_scan_calls |-> 0,
                           doc_before |-> doc,
                           all_processed_before |->
                               \A i \in DOMAIN articles : articles[i] \in processed,
                           cards_before |-> CardsIn(doc),
                           records_before |-> LoadProspects(pjson),
                           history_before |-> history.entries]
            /\ UNCHANGED <<file, marked, doc, pjson, history, published, processed,
                           hlog>>
       ELSE
       \E filtered \in {filter_new([prospects |-> opened.prospects, file |-> file],
                                   qualified, now)} :
       \E new_prospects \in {filtered.new_prospects} :
       \E html \in {run_scan_publish(doc, new_prospects, now)} :
       LET deduped_count == Len(qualified) - Len(new_prospects)
           existing == LoadProspects(pjson)
       IN  /\ manifest' = [opened EXCEPT !.prospects = filtered.st.prospects]
           /\ file' = filtered.st.file
           /\ marked' = marked \cup
                  {<<new_prospects[i].organization, new_prospects[i].source_url>> :
                       i \in DOMAIN new_prospects}
           /\ last' = [op |-> "filter_new", input |-> qualified,
                       before |-> opened.prospects, result |-> new_prospects]
           /\ doc' = html.doc
           /\ pjson' = [kind |-> "ok",
                        records |-> existing \o WithAddedDate(new_prospects, now)]
           /\ history' = record_scan_history(history,
                             [qualified |-> Len(qualified), inserted |-> Len(new_prospects),
                              deduped |-> deduped_count, at |-> now])
           /\ hlog' = Append(hlog,
                             [qualified |-> Len(qualified), inserted |-> Len(new_prospects),
                              deduped |-> deduped_count, at |-> now])
           /\ published' = IF html.update_called /\ html.update_ok
                           THEN published \cup IdsOf(new_prospects) ELSE published
           /\ processed' = processed \cup {articles[i] : i \in DOMAIN articles}
           /\ lastrun' = [entry |-> "run_scan", dry_run |-> FALSE, crashed |-> FALSE,
                          qualified_count |-> Len(qualified),
                          filter_called |-> TRUE, filter_result |-> new_prospects,
                          update_called |-> html.update_called,
                          update_arg |-> new_prospects,
                          update_ok |-> html.update_ok,
                          republished |-> IdsOf(new_prospects) \cap published,
                          record_scan_calls |-> html.record_scan_calls,
                          record_ok |-> html.record_ok,
                          doc_before |-> doc,
                          all_processed_before |->
                              \A i \in DOMAIN articles : articles[i] \in processed,
                          cards_before |-> CardsIn(doc),
                          records_before |-> LoadProspects(pjson),
                          history_before |-> history.entries]
    /\ UNCHANGED <<hcalls, now, scall, qcall, ucall>>

\* ProspectAgent._save_prospects: merge by organization name; the names are
\* collected once, before the loop
_save_prospects(f, prospects, t) ==
    LET existing == IF f.kind = "ok" THEN f.records ELSE <<>>
        existing_orgs == {existing[i].organization : i \in DOMAIN existing}
        fresh == SelectSeq(prospects, LAMBDA p : p.organization \notin existing_orgs)
        added == [i \in DOMAIN fresh |->
                     [organization |-> fresh[i].organization,
                      source_url |-> fresh[i].source_url,
                      added_date |-> t, status |-> "new"]]
    IN  [kind |-> "ok", records |-> existing \o added]

\* a publishing step that leaves the banner alone when nothing qualified
agent_publish_skip_empty(d, qualified_prospects, t) ==
    IF qualified_prospects # <<>>
    THEN LET banner == record_scan(d, Len(qualified_prospects), t)
             inserted == update(banner.doc, qualified_prospects, t)
         IN  [doc |-> inserted.doc, record_scan_calls |-> 1, record_ok |-> banner.ok,
              update_called |-> TRUE, update_ok |-> inserted.ok]
    ELSE [doc |-> d, record_scan_calls |-> 0, record_ok |-> FALSE,
          update_called |-> FALSE, update_ok |-> FALSE]

\* ProspectAgent.run, "Step 4: Update HTML (unless dry run)", the branch taken
\* when dry_run is false: record_scan and update when something qualified,
\* record_scan(0) otherwise
agent_publish(d, qualified_prospects, t) ==
    IF qualified_prospects # <<>>
    THEN LET banner == record_scan(d, Len(qualified_prospects), t)
             inserted == update(banner.doc, qualified_prospects, t)
         IN  [doc |-> inserted.doc, record_scan_calls |-> 1, record_ok |-> banner.ok,
              update_called |-> TRUE, update_ok |-> inserted.ok]
    ELSE LET banner == record_scan(d, 0, t)
         IN  [doc |-> banner.doc, record_scan_calls |-> 1, record_ok |-> banner.ok,
              update_called |-> FALSE, update_ok |-> FALSE]

\* ProspectAgent.run: qualify, _save_prospects, then record_scan and update with
\* every qualified prospect; no manifest is consulted.  A prospects JSON that
\* does not parse makes _save_prospects raise and ends the run there.
AgentRun(articles, dry_run) ==
    /\ runs < MaxRuns
    /\ runs' = runs + 1
    /\ \E qualified \in
           {SelectSeq(QualifyAll(PipelineConfig, articles),
                      LAMBDA p : p.qualification_score >=
                                     PipelineConfig.qualification_threshold)} :
       \E html \in {agent_publish(doc, qualified, now)} :
       LET crashed == (pjson.kind = "corrupt")
           publish == ~crashed /\ ~dry_run
       IN  /\ pjson' = IF crashed THEN pjson ELSE _save_prospects(pjson, qualified, now)
           /\ doc' = IF publish THEN html.doc ELSE doc
           /\ published' = IF publish /\ html.update_called /\ html.update_ok
                           THEN published \cup IdsOf(qualified) ELSE published
           /\ lastrun' = [entry |-> "ProspectAgent.run", dry_run |-> dry_run,
                          qualified_count |-> Len(qualified),
                          crashed |-> crashed,
                          filter_called |-> FALSE,
                          update_called |-> (publish /\ html.update_called),
                          update_arg |-> qualified,
                          republished |-> IF publish /\ html.update_called
                                          THEN IdsOf(qualified) \cap published ELSE {},
                          record_scan_calls |->
                              IF publish THEN html.record_scan_calls ELSE 0,
                          doc_before |-> doc,
                          records_before |-> LoadProspects(pjson)]
    /\ UNCHANGED <<hcalls, file, manifest, now, marked, last, scall, qcall,
                   history, processed, ucall, hlog>>

\* what one fetch returns: up to MaxArticles of the feeds' articles, in feed order
FeedBatches ==
    {SelectSeq(FeedOrder, LAMBDA a : a \in chosen) :
         chosen \in {c \in SUBSET FeedArticles : Cardinality(c) <= MaxArticles}}

\* repeated runs of run_scan
NextScan ==
    \/ \E articles \in FeedBatches : RunScan(articles)
    \/ \E articles \in FeedBatches : RunScanDry(articles)

SpecScan == InitPipeline /\ [][NextScan]_vars

\* both entry points
NextPipeline ==
    \/ \E articles \in FeedBatches : RunScan(articles)
    \/ \E articles \in FeedBatches, dry_run \in BOOLEAN : AgentRun(articles, dry_run)

SpecPipeline == InitPipeline /\ [][NextPipeline]_vars

(***************************************************************************)
(* HTMLUpdater.update called directly, on documents of every shape         *)
(***************************************************************************)
\* the pieces of markup the insertion patterns and the fallback look at
UpdateTokens ==
    {"other", "section-close", "comment", "tier-partners", "removed-section",
     "footer", "div-close", "script", "body-close"}

\* the documents update may find: none, or any short run of the pieces
UpdateDocs ==
    {NoDocument} \cup
    {[exists |-> TRUE, body |-> [i \in DOMAIN toks |-> Tok(toks[i])]] :
         toks \in BoundedSeq(UpdateTokens, MaxDocLen)}

ProspectOne == [organization |-> OrgMercyGroup, source_url |-> UrlOne]
ProspectTwo == [organization |-> OrgSummitClinic, source_url |-> UrlTwo]

\* the lists update is called with
UpdateLists == {<<ProspectOne>>, <<ProspectOne, ProspectTwo>>}

InitUpdate ==
    /\ hcalls = <<>>
    /\ file = [kind |-> "missing", prospects |-> EmptyDict]
    /\ manifest = NoInstance
    /\ now = 0
    /\ marked = {}
    /\ last = [op |-> "none"]
    /\ scall = [called |-> FALSE]
    /\ qcall = [called |-> FALSE]
    /\ doc \in UpdateDocs
    /\ pjson = [kind |-> "missing", records |-> <<>>]
    /\ history = [kind |-> "missing", entries |-> <<>>]
    /\ runs = 0
    /\ published = {}
    /\ processed = {}
    /\ lastrun = [entry |-> "none"]
    /\ ucall = [op |-> "none", n |-> 0]
    /\ hlog = <<>>

\* HTMLUpdater(config).update(prospects)
Update(prospects) ==
    /\ ucall.n < MaxUpdates
    /\ \E r \in {update(doc, prospects, now)} :
           /\ doc' = r.doc
           /\ ucall' = [op |-> "update", n |-> ucall.n + 1, prospects |-> prospects,
                        doc_before |-> doc, ok |-> r.ok,
                        same_single |-> /\ prospects = <<ProspectOne>>
                                        /\ ucall.op = "update" => ucall.same_single]
    /\ UNCHANGED <<hcalls, file, manifest, now, marked, last, scall, qcall,
                   pjson, history, runs, published, processed, lastrun, hlog>>

NextUpdate == \E prospects \in UpdateLists : Update(prospects)

SpecUpdate == InitUpdate /\ [][NextUpdate]_vars

(***************************************************************************)
(* record_scan and update called in any order on one document              *)
(***************************************************************************)
\* the pieces of a published page: markup, status paragraphs, anchors, a card
PageTokens ==
    {Tok("other"), Tok("footer"), Tok("body-close"),
     [t |-> "scan-timestamp", at |-> 0],
     [t |-> "scan-result", msg |-> ResultMsg(0)],
     [t |-> "card", org |-> OrgSummitClinic, url |-> UrlTwo]}

PageDocs ==
    {NoDocument} \cup
    {[exists |-> TRUE, body |-> body] : body \in BoundedSeq(PageTokens, MaxDocLen)}

InitPublish ==
    /\ hcalls = <<>>
    /\ file = [kind |-> "missing", prospects |-> EmptyDict]
    /\ manifest = NoInstance
    /\ now = 1
    /\ marked = {}
    /\ last = [op |-> "none"]
    /\ scall = [called |-> FALSE]
    /\ qcall = [called |-> FALSE]
    /\ doc \in PageDocs
    /\ pjson = [kind |-> "missing", records |-> <<>>]
    /\ history = [kind |-> "missing", entries |-> <<>>]
    /\ runs = 0
    /\ published = {}
    /\ processed = {}
    /\ lastrun = [entry |-> "none"]
    /\ ucall = [op |-> "none", n |-> 0]
    /\ hlog = <<>>

\* HTMLUpdater(config).update(prospects)
PublishUpdate(prospects) ==
    /\ ucall.n < MaxUpdates
    /\ \E r \in {update(doc, prospects, now)} :
           /\ doc' = r.doc
           /\ ucall' = [op |-> "update", n |-> ucall.n + 1, prospects |-> prospects,
                        at |-> now, doc_before |-> doc, ok |-> r.ok]
    /\ now' = now + 1
    /\ UNCHANGED <<hcalls, file, manifest, marked, last, scall, qcall,
                   pjson, history, runs, published, processed, lastrun, hlog>>

\* HTMLUpdater(config).record_scan(prospect_count)
PublishRecordScan(prospect_count) ==
    /\ ucall.n < MaxUpdates
    /\ \E r \in {record_scan(doc, prospect_count, now)} :
           /\ doc' = r.doc
           /\ ucall' = [op |-> "record_scan", n |-> ucall.n + 1,
                        prospect_count |-> prospect_count,
                        at |-> now, doc_before |-> doc, ok |-> r.ok]
    /\ now' = now + 1
    /\ UNCHANGED <<hcalls, file, manifest, marked, last, scall, qcall,
                   pjson, history, runs, published, processed, lastrun, hlog>>

NextPublish ==
    \/ \E prospects \in UpdateLists : PublishUpdate(prospects)
    \/ \E prospect_count \in 0..MaxBatch : PublishRecordScan(prospect_count)

SpecPublish == InitPublish /\ [][NextPublish]_vars

(***************************************************************************)
(* record_scan_history called directly, on histories of every length       *)
(***************************************************************************)
\* the record of the i-th scan; timestamps grow with every scan
ScanEntry(i, q) == [qualified |-> q, inserted |-> q, deduped |-> 0, at |-> i]

\* the history files a call may find: none, one that does not parse, one that
\* parses to something that is no list, or the records of 0..100 earlier scans
HistoryFiles ==
    {[kind |-> "missing", entries |-> <<>>],
     [kind |-> "corrupt", entries |-> <<>>],
     [kind |-> "malformed", entries |-> <<>>]} \cup
    {[kind |-> "ok", entries |-> [i \in 1..n |-> ScanEntry(i, 0)]] : n \in 0..HistoryCap}

InitHistory ==
    /\ hcalls = <<>>
    /\ file = [kind |-> "missing", prospects |-> EmptyDict]
    /\ manifest = NoInstance
    /\ now = 0
    /\ marked = {}
    /\ last = [op |-> "none"]
    /\ scall = [called |-> FALSE]
    /\ qcall = [called |-> FALSE]
    /\ doc = NoDocument
    /\ pjson = [kind |-> "missing", records |-> <<>>]
    /\ history \in HistoryFiles
    /\ runs = 0
    /\ published = {}
    /\ processed = {}
    /\ lastrun = [entry |-> "none", n |-> 0]
    /\ ucall = [op |-> "none", n |-> 0]
    /\ hlog = history.entries

\* record_scan_history(...) with q prospects qualified
RecordScanHistory(q) ==
    /\ lastrun.n < MaxWrites
    /\ \E entry \in {ScanEntry(Len(hlog) + 1, q)} :
           /\ history' = record_scan_history(history, entry)
           /\ hlog' = IF history.kind = "malformed" THEN hlog ELSE Append(hlog, entry)
           /\ lastrun' = [entry |-> "record_scan_history", n |-> lastrun.n + 1,
                          raised |-> (history.kind = "malformed"),
                          record |-> entry,
                          history_before |-> history]
    /\ UNCHANGED <<hcalls, file, manifest, now, marked, last, scall, qcall,
                   doc, pjson, runs, published, processed, ucall>>

NextHistory == \E q \in 0..1 : RecordScanHistory(q)

SpecHistory == InitHistory /\ [][NextHistory]_vars

(***************************************************************************)
(* Claims about scoring                                                    *)
(***************************************************************************)
\* C7: every prospect qualify returns has 0 <= qualification_score <= 100.
C7_ScoreWithin0And100 ==
    (qcall.called /\ qcall.result.ok) =>
        /\ 0 <= qcall.result.qualification_score
        /\ qcall.result.qualification_score <= 100

\* C8: a criterion's score never exceeds its weight, and from three matching
\* keywords on it is the score of exactly three matches.
C8_ScoreAtMostWeight ==
    scall.called =>
        /\ scall.score <= scall.weight
        /\ scall.match_count >= 3 =>
               scall.score =
                   _calculate_scores(SingleCriterion(scall.weight, ScoreKeywords),
                                     {ScoreKeywords[1], ScoreKeywords[2], ScoreKeywords[3]}
                                    )["cloud_migration"]

\* every keyword of the criterion is in the text, more than three of them
C8_Witness ==
    /\ scall.called
    /\ scall.weight > 0
    /\ scall.match_count = Len(scall.keywords)
    /\ scall.match_count > 3
    /\ scall.score = scall.weight

\* C9: the score is 0 for no match, 50% of the weight for one match, 100% from
\* three matches on and halfway between the two (75%) for two matches, each
\* rounded down.
C9_HalfWeightForOneMatch ==
    scall.called =>
        scall.score =
            CASE scall.match_count = 0 -> 0
              [] scall.match_count = 1 -> scall.weight \div 2
              [] scall.match_count = 2 -> (3 * scall.weight) \div 4
              [] OTHER -> scall.weight

\* the agent_name carries the tag
CarriesTag(config, tag) == Contains(lower(config.agent_name), tag)

\* at least two terms of the finance domain and none of healthcare; the reverse
FinanceArticle(text) ==
    CountIn(bfsi_terms, text) >= 2 /\ CountIn(healthcare_terms, text) = 0

HealthcareArticle(text) ==
    CountIn(healthcare_terms, text) >= 2 /\ CountIn(bfsi_terms, text) = 0

\* the criterion scores of the text, summed
BaseScore(config, text) ==
    LET scores == _calculate_scores(config, text)
    IN  SumScores(scores, DOMAIN scores)

\* the score qualify compares with the threshold: the sum, less the penalty,
\* plus the boost of the category
FinalScore(config, text) ==
    LET category == _determine_category(config, text)
    IN  BaseScore(config, text)
            - (IF _has_negative_signals(config, text) THEN NegativePenalty ELSE 0)
            + (IF category # NoCategory
               THEN config.categories[category].priority_boost ELSE 0)

ScoresAtThreshold(config, text) ==
    FinalScore(config, text) >= config.qualification_threshold

\* an organization name comes out of the article: by the patterns, or from the
\* title when the criterion scores sum to 50 or more
HasOrganization(config, article) ==
    \/ _extract_organization(article) # NoOrg
    \/ /\ BaseScore(config, article.terms) >= 50
       /\ _extract_fallback_org(article) # NoOrg

\* C18 as stated: a finance article is rejected by a healthcare-tagged qualifier
\* and accepted by a bfsi-tagged one whenever it scores at or above the
\* threshold; symmetrically for a healthcare article.
C18_DomainGate ==
    qcall.called =>
        LET config == qcall.config
            text == qcall.article.terms
        IN  /\ (FinanceArticle(text) /\ CarriesTag(config, StrHealthcare)) =>
                   ~qcall.result.ok
            /\ (FinanceArticle(text) /\ CarriesTag(config, StrBfsi)
                    /\ ScoresAtThreshold(config, text)) => qcall.result.ok
            /\ (HealthcareArticle(text) /\ CarriesTag(config, StrBfsi)) =>
                   ~qcall.result.ok
            /\ (HealthcareArticle(text) /\ CarriesTag(config, StrHealthcare)
                    /\ ScoresAtThreshold(config, text)) => qcall.result.ok

\* C18 amended: the healthcare-scoped qualifier is the one tagged healthcare and
\* not bfsi, and acceptance also needs an organization name to come out of the
\* article.
C18_DomainGateWithOrganization ==
    qcall.called =>
        LET config == qcall.config
            article == qcall.article
            text == article.terms
            healthcare_scoped ==
                CarriesTag(config, StrHealthcare) /\ ~CarriesTag(config, StrBfsi)
            bfsi_scoped == CarriesTag(config, StrBfsi)
            acceptable ==
                ScoresAtThreshold(config, text) /\ HasOrganization(config, article)
        IN  /\ (FinanceArticle(text) /\ healthcare_scoped) => ~qcall.result.ok
            /\ (FinanceArticle(text) /\ bfsi_scoped /\ acceptable) => qcall.result.ok
            /\ (HealthcareArticle(text) /\ bfsi_scoped) => ~qcall.result.ok
            /\ (HealthcareArticle(text) /\ healthcare_scoped /\ acceptable) =>
                   qcall.result.ok

\* a finance article that the bfsi-tagged qualifier accepted, at a threshold of 65
C18_Witness ==
    /\ qcall.called
    /\ FinanceArticle(qcall.article.terms)
    /\ CarriesTag(qcall.config, StrBfsi)
    /\ ~CarriesTag(qcall.config, StrHealthcare)
    /\ qcall.config.qualification_threshold = 65
    /\ qcall.result.ok

\* C22 as stated: qualify returns a prospect only if the final total is at
\* least the threshold, so every prospect it returns has qualification_score
\* >= qualification_threshold.
C22_ScoreAtLeastThreshold ==
    (qcall.called /\ qcall.result.ok) =>
        /\ FinalScore(qcall.config, qcall.article.terms)
               >= qcall.config.qualification_threshold
        /\ qcall.result.qualification_score >= qcall.config.qualification_threshold

\* C22, amended: the final total is at least the threshold, and
\* qualification_score is at least the smaller of the threshold and 100.
C22_ScoreAtLeastCappedThreshold ==
    (qcall.called /\ qcall.result.ok) =>
        /\ FinalScore(qcall.config, qcall.article.terms)
               >= qcall.config.qualification_threshold
        /\ qcall.result.qualification_score >=
               (IF qcall.config.qualification_threshold < 100
                THEN qcall.config.qualification_threshold ELSE 100)

\* a prospect returned at a threshold of 65 with a total below 100, and so with
\* a score that is the total
C22_Witness ==
    /\ qcall.called
    /\ qcall.result.ok
    /\ qcall.config.qualification_threshold = 65
    /\ qcall.result.qualification_score < 100
    /\ qcall.result.qualification_score = FinalScore(qcall.config, qcall.article.terms)

\* C23: the total qualify compares with the threshold is the sum of the
\* criterion scores, minus 20 once if any configured negative signal (a
\* negative_signals entry of managed_services_gap) is in the text, plus the priority_boost of the first category, in declared order, with
\* a keyword in the text (the first declared category if none has one);
\* qualification_score is the minimum of that total and 100.
C23_TotalIsSumPenaltyBoost ==
    (qcall.called /\ qcall.result.ok) =>
        LET text == qcall.article.terms
            criteria == qcall.config.qualification_criteria
            cats == qcall.config.categories
            scores == qcall.result.score_breakdown
            negative == \E i \in DOMAIN criteria :
                            /\ criteria[i].name = "managed_services_gap"
                            /\ \E k \in DOMAIN criteria[i].negative_signals :
                                   criteria[i].negative_signals[k] \in text
            with_keyword == {i \in DOMAIN cats :
                                \E k \in DOMAIN cats[i].keywords :
                                    cats[i].keywords[k] \in text}
            selected == IF with_keyword = {} THEN 1
                        ELSE CHOOSE i \in with_keyword : \A j \in with_keyword : i <= j
            total == SumScores(scores, DOMAIN scores)
                         - (IF negative THEN 20 ELSE 0)
                         + cats[selected].priority_boost
        IN  /\ qcall.result.audit_total = total
            /\ ~(total < qcall.config.qualification_threshold)
            /\ qcall.result.qualification_score = (IF total < 100 THEN total ELSE 100)
            /\ qcall.result.category = cats[selected].name

\* a prospect whose text has both negative signals and a keyword of the second
\* category only
C23_Witness ==
    /\ qcall.called
    /\ qcall.result.ok
    /\ {"aws partnership", "azure partnership", "bank"} \subseteq qcall.article.terms
    /\ "hospital" \notin qcall.article.terms
    /\ qcall.result.category = "banking"

\* C24: qualify never returns a prospect without an organization; an
\* organization with the "(Industry Signal)" suffix is returned only when
\* pattern extraction found none and the criterion scores sum to at least 50
\* before penalty and boost; an article with no extracted organization and a
\* sum below 50 is rejected, whatever the threshold and the boosts are.
C24_OrganizationOrFallback ==
    qcall.called =>
        LET scores == _calculate_scores(qcall.config, qcall.article.terms)
            base == SumScores(scores, DOMAIN scores)
            extracted == _extract_organization(qcall.article)
            n == Len(IndustrySignalSuffix)
        IN  /\ qcall.result.ok =>
                /\ qcall.result.organization # NoOrg
                /\ (/\ Len(qcall.result.organization) >= n
                    /\ SubSeq(qcall.result.organization,
                              Len(qcall.result.organization) - n + 1,
                              Len(qcall.result.organization)) = IndustrySignalSuffix)
                       => (extracted = NoOrg /\ base >= 50)
            /\ (extracted = NoOrg /\ base < 50) => ~qcall.result.ok

C24_Witness ==
    /\ qcall.called
    /\ qcall.result.ok
    /\ qcall.result.organization = LeadAccenture \o IndustrySignalSuffix
    /\ qcall.config.qualification_threshold = -30

\* an article of the kind the floor decides: no extracted organization, a
\* usable title lead, relevant to the domain, and a sum from 40 to 49
C24_WitnessBelowFloor ==
    /\ qcall.called
    /\ ~qcall.result.ok
    /\ qcall.article.title_lead = LeadAccenture
    /\ _is_domain_relevant(qcall.config, qcall.article.terms)
    /\ qcall.config.qualification_threshold = -30
    /\ LET scores == _calculate_scores(qcall.config, qcall.article.terms)
       IN  SumScores(scores, DOMAIN scores) \in 40..49

\* the candidate of rule i: its longest match, the first of the equally long ones
RuleCandidate(found, i) ==
    LET matches == found[i]
        k == CHOOSE k \in DOMAIN matches :
                 /\ \A j \in DOMAIN matches : Len(matches[j]) <= Len(matches[k])
                 /\ \A j \in DOMAIN matches : j < k => Len(matches[j]) < Len(matches[k])
    IN  matches[k]

\* the gates of the claim on a candidate of rule i
PassesGates(org, i) ==
    /\ Len(org) > 5
    /\ Len(org) <= 60
    /\ org \notin false_positives
    /\ (HasSpace(org) \/ i = KnownCompanyPattern)

\* C25 as stated: the rules are tried in order; each rule's candidate is its
\* longest match (the first among equally long ones), accepted iff its length
\* is > 5 and <= 60, it is no stop word and it has a space unless it is from
\* the well-known-company rule; the result is the accepted candidate of the
\* first rule that has one, and none if no rule has one.
C25_FirstAcceptedLongestMatch ==
    qcall.called =>
        LET found == qcall.found
            accepted == {i \in DOMAIN found :
                           found[i] # <<>> /\ PassesGates(RuleCandidate(found, i), i)}
        IN  IF accepted = {} THEN qcall.result = NoOrg
            ELSE qcall.result =
                     RuleCandidate(found, CHOOSE i \in accepted : \A j \in accepted : i <= j)

\* C25, amended: the candidate is the longest match after its whitespace is
\* trimmed and every run of whitespace is collapsed to one space; the gates
\* are applied to, and the result is, that cleaned candidate.
C25_FirstAcceptedCleanedMatch ==
    qcall.called =>
        LET found == qcall.found
            cleaned == [i \in DOMAIN found |->
                           IF found[i] = <<>> THEN NoOrg
                           ELSE collapse_ws(strip(RuleCandidate(found, i)))]
            accepted == {i \in DOMAIN found :
                           found[i] # <<>> /\ PassesGates(cleaned[i], i)}
        IN  IF accepted = {} THEN qcall.result = NoOrg
            ELSE qcall.result = cleaned[CHOOSE i \in accepted : \A j \in accepted : i <= j]

\* the first rule has two equally long matches after a rejected one, and the
\* first of the two is returned
C25_Witness ==
    /\ qcall.called
    /\ qcall.found[1] = <<OrgTenetGroup, OrgMercyGroup>>
    /\ qcall.found[4] = <<OrgEpic, OrgCerner>>
    /\ qcall.result = OrgTenetGroup

\* rule 1 rejects its candidate as too long, rule 4 accepts a name without a
\* space that rule 5 would have rejected
C25_WitnessLaterRule ==
    /\ qcall.called
    /\ qcall.found[1] = <<OrgLongGroup>>
    /\ qcall.found[2] = <<>>
    /\ qcall.found[4] = <<OrgCerner>>
    /\ qcall.found[5] = <<WordAccording>>
    /\ qcall.result = OrgCerner

\* the criteria of _generate_wedge in their order, the score each must exceed,
\* and the phrases each can contribute
WedgeOrder ==
    <<"cloud_migration", "managed_services_gap", "ai_infrastructure",
      "compliance_sensitivity", "timing_urgency">>
WedgeLimits == <<10, 10, 10, 8, 8>>
WedgePhrases ==
    <<{"Post-migration optimization"},
      {"managed private cloud operations"},
      {"AI/ML infrastructure management"},
      {"PCI/SOX-compliant hosting", "HIPAA-compliant hosting"},
      {"accelerated deployment support"}>>

\* the criteria whose score exceeds its limit
Triggered(scores) ==
    {i \in DOMAIN WedgeOrder : ScoreGet(scores, WedgeOrder[i]) > WedgeLimits[i]}

\* the phrases of a joined wedge, without the separators
PhrasesOf(wedge) == [k \in 1..((Len(wedge) + 1) \div 2) |-> wedge[2 * k - 1]]

\* C27: rackspace_wedge is never empty and lists at most 3 phrases: the
\* comma-joined first three (or fewer) triggered phrases in the order
\* migration (> 10), managed services (> 10), AI infrastructure (> 10),
\* compliance (> 8), urgency (> 8), or, when none triggers, exactly the first
\* configured value proposition.
C27_WedgeFirstThreeTriggered ==
    (qcall.called /\ qcall.result.ok) =>
        LET wedge == qcall.result.rackspace_wedge
            phrases == PhrasesOf(wedge)
            trig == Triggered(qcall.result.score_breakdown)
        IN  /\ wedge # <<>>
            /\ Len(wedge) % 2 = 1
            /\ \A k \in DOMAIN wedge : (k % 2 = 0) => wedge[k] = ", "
            /\ Len(phrases) <= 3
            /\ IF trig = {}
               THEN wedge = <<qcall.config.rackspace_value_propositions[1]>>
               ELSE /\ Len(phrases) = Min(3, Cardinality(trig))
                    /\ \A k \in DOMAIN phrases :
                           \E i \in trig :
                               /\ Cardinality({j \in trig : j < i}) = k - 1
                               /\ phrases[k] \in WedgePhrases[i]

\* all five criteria trigger and the wedge keeps the first three
C27_Witness ==
    /\ qcall.called
    /\ qcall.result.ok
    /\ Cardinality(Triggered(qcall.result.score_breakdown)) = 5
    /\ qcall.result.rackspace_wedge =
           <<"Post-migration optimization", ", ", "managed private cloud operations",
             ", ", "AI/ML infrastructure management">>

\* every score is exactly at its limit and the wedge is the first value proposition
C27_WitnessAtLimits ==
    /\ qcall.called
    /\ qcall.result.ok
    /\ \A i \in DOMAIN WedgeOrder :
           ScoreGet(qcall.result.score_breakdown, WedgeOrder[i]) = WedgeLimits[i]
    /\ qcall.result.rackspace_wedge = <<"Private Cloud + Managed Services">>

\* C26: a compliance phrase in rackspace_wedge names the framework of the
\* qualifier's domain: never the PCI/SOX phrase from a healthcare-scoped
\* qualifier, never the HIPAA phrase from a finance-scoped one.
C26_CompliancePhraseOfDomain ==
    (qcall.called /\ qcall.result.ok) =>
        LET phrases == PhrasesOf(qcall.result.rackspace_wedge)
            has(p) == \E k \in DOMAIN phrases : phrases[k] = p
            finance == Contains(lower(qcall.config.agent_name), StrBfsi)
            healthcare == ~finance /\ Contains(lower(qcall.config.agent_name), StrHealthcare)
        IN  /\ healthcare => ~has("PCI/SOX-compliant hosting")
            /\ finance => ~has("HIPAA-compliant hosting")

\* C30: the total at the end of score_audit equals qualification_score.
C30_AuditTotalIsScore ==
    (qcall.called /\ qcall.result.ok) =>
        qcall.result.audit_total = qcall.result.qualification_score

\* C28: a ProspectQualifier and an HTMLUpdater built from one configuration
\* agree on the domain: is_bfsi is true exactly when the qualifier scopes the
\* configuration to finance, and every card rendered afterwards has the
\* variant chosen at construction.
C28_QualifierAndUpdaterAgree ==
    (qcall.called /\ ucall.op # "none") =>
        /\ ucall.is_bfsi <=> (qcall.scope = "bfsi")
        /\ \A k \in DOMAIN ucall.colors : ucall.colors[k] = primary_color(ucall.is_bfsi)

(***************************************************************************)
(* Claims about the manifest                                               *)
(***************************************************************************)
\* C1: once mark_seen(org, url) has completed, is_new(org, url) is false on
\* the live instance after any further calls, and on a fresh instance opened
\* on the same path.
C1_SeenStaysSeen ==
    /\ manifest.open =>
           \A pr \in marked : ~is_new(manifest.prospects, pr[1], pr[2])
    /\ \A pr \in marked : ~is_new(Construct(file).prospects, pr[1], pr[2])
    /\ (last.op = "is_new" /\ <<last.org, last.url>> \in marked) => ~last.result

\* is_new answered false for a marked pair, right after a restart
C1_Witness ==
    /\ last.op = "is_new"
    /\ last.after_open
    /\ <<last.org, last.url>> \in marked
    /\ ~last.result

\* input i is kept: its id is not in the store the call started with, and no
\* earlier input of the same call has that id
KeptAt(before, ps, i) ==
    /\ HashOf(ps[i]) \notin DOMAIN before
    /\ \A j \in 1..(i - 1) : HashOf(ps[j]) # HashOf(ps[i])

ExpectedNew(before, ps) ==
    LET idx == SelectSeq([i \in 1..Len(ps) |-> i], LAMBDA i : KeptAt(before, ps, i))
    IN  [k \in 1..Len(idx) |-> ps[idx[k]]]

\* C3: filter_new returns, in input order, exactly the inputs whose id was absent
\* when they were reached; no id is returned twice; afterwards no input is new
\* and the store holds the old ids and the returned ones.
C3_FilterNewExact ==
    last.op = "filter_new" =>
        /\ last.result = ExpectedNew(last.before, last.input)
        /\ \A i, j \in DOMAIN last.result :
               i # j => HashOf(last.result[i]) # HashOf(last.result[j])
        /\ \A i \in DOMAIN last.input :
               ~is_new(manifest.prospects, last.input[i].organization,
                       last.input[i].source_url)
        /\ DOMAIN manifest.prospects =
               (DOMAIN last.before) \cup {HashOf(last.result[i]) : i \in DOMAIN last.result}

\* a batch that repeats an identity, of which one input was returned and one dropped
C3_Witness ==
    /\ last.op = "filter_new"
    /\ Len(last.input) >= 2
    /\ \E i, j \in DOMAIN last.input :
           /\ i < j
           /\ last.input[i] # last.input[j]
           /\ HashOf(last.input[i]) = HashOf(last.input[j])
           /\ HashOf(last.input[i]) \notin DOMAIN last.before
    /\ Len(last.result) >= 1
    /\ Len(last.result) < Len(last.input)

\* the identities mark_seen has completed for
MarkedIds == {_hash(pr[1], pr[2]) : pr \in marked}

\* C11: count is the number of distinct identities marked so far, on the live
\* instance and on a fresh one loaded from the file; marking a stored identity
\* leaves it unchanged and marking a new one raises it by exactly 1.
C11_CountIsDistinctMarked ==
    /\ (manifest.open /\ ~Raises(manifest)) =>
           count(manifest.prospects) = Cardinality(MarkedIds)
    /\ ~Raises(Construct(file)) =>
           count(Construct(file).prospects) = Cardinality(MarkedIds)
    /\ last.op = "count" => last.result = Cardinality(MarkedIds)
    /\ last.op = "mark_seen" =>
           count(manifest.prospects) =
               count(last.before) +
                   (IF _hash(last.org, last.url) \in DOMAIN last.before THEN 0 ELSE 1)

\* count read on a fresh instance after three pairs of two identities were marked
C11_Witness ==
    /\ last.op = "count"
    /\ last.after_open
    /\ Cardinality(marked) = 3
    /\ last.result = 2

\* C12: an instance opened on a file that is missing, unreadable or not a
\* well-formed manifest starts empty (count 0, every pair new), and no later
\* call raises.
C12_BadFileOpensEmpty ==
    /\ (last.op = "open" /\ file.kind # "ok") =>
           /\ ~Raises(manifest)
           /\ count(manifest.prospects) = 0
           /\ \A pr \in PairPool : is_new(manifest.prospects, pr[1], pr[2])
    /\ last.op # "raised"

\* C5: the manifest is append-only: no call removes an entry or changes a
\* stored entry (org, url, score, first_seen).
C5_AppendOnly ==
    [][(manifest.open /\ manifest'.open) =>
           \A id \in DOMAIN manifest.prospects :
               /\ id \in DOMAIN manifest'.prospects
               /\ manifest'.prospects[id] = manifest.prospects[id]]_vars

(***************************************************************************)
(* Claims about the pipeline                                               *)
(***************************************************************************)
CardId(card) == _hash(card.org, card.url)

\* no two elements of the sequence have the same id
OnePerIdentity(items, Id(_)) ==
    \A i, j \in DOMAIN items : Id(items[i]) = Id(items[j]) => i = j

C4_UpdateGetsFilteredNew ==
    (lastrun.entry # "none" /\ lastrun.update_called) =>
        /\ lastrun.filter_called
        /\ lastrun.update_arg = lastrun.filter_result
        /\ lastrun.republished = {}

C17_MissingDocRunContinues ==
    (/\ lastrun.entry = "run_scan"
     /\ lastrun.record_scan_calls = 1
     /\ ~lastrun.doc_before.exists) =>
        /\ ~lastrun.record_ok
        /\ lastrun.update_called => ~lastrun.update_ok
        /\ doc = NoDocument
        /\ pjson = [kind |-> "ok",
                    records |-> lastrun.records_before
                                    \o WithAddedDate(lastrun.filter_result, now)]
        /\ history.kind = "ok"
        /\ Len(history.entries) = Len(lastrun.history_before) + 1
        /\ SubSeq(history.entries, 1, Len(lastrun.history_before))
               = lastrun.history_before
        /\ history.entries[Len(history.entries)].inserted = Len(lastrun.filter_result)

\* run_scan found no document, called record_scan and update, and appended the
\* new prospects and the scan record
C17_Witness ==
    /\ lastrun.entry = "run_scan"
    /\ ~lastrun.doc_before.exists
    /\ lastrun.record_scan_calls = 1
    /\ lastrun.update_called
    /\ ~lastrun.update_ok
    /\ Len(pjson.records) > Len(lastrun.records_before)
    /\ Len(history.entries) = Len(lastrun.history_before) + 1

\* C19: the prospects output file never holds two records with the same
\* organization name, and every record that was in it before a run is still in
\* it, unchanged, after the run.
C19_OneRecordPerOrganization ==
    LET records == LoadProspects(pjson)
    IN  /\ \A i, j \in DOMAIN records :
               records[i].organization = records[j].organization => i = j
        /\ lastrun.entry # "none" =>
               /\ Len(lastrun.records_before) <= Len(records)
               /\ SubSeq(records, 1, Len(lastrun.records_before))
                      = lastrun.records_before

\* C21: run_scan records no prospect as seen without publishing it: every
\* identity a run added to the manifest has a card in the document by the end
\* of that run.
C21_SeenOnlyIfPublished ==
    (lastrun.entry = "run_scan" /\ ~lastrun.dry_run /\ ~lastrun.crashed) =>
        \A i \in DOMAIN lastrun.filter_result :
            /\ HashOf(lastrun.filter_result[i]) \in DOMAIN manifest.prospects
            /\ \E k \in DOMAIN doc.body :
                   /\ doc.body[k].t = "card"
                   /\ CardId(doc.body[k]) = HashOf(lastrun.filter_result[i])

(***************************************************************************)
(* Claims about HTMLUpdater.update                                         *)
(***************************************************************************)
\* the cards of one organization in a document
CardsFor(d, org) == SelectSeq(d.body, LAMBDA tok : tok.t = "card" /\ tok.org = org)

\* the batch comments in a document body
BatchesIn(body) == SelectSeq(body, LAMBDA tok : tok.t = "batch")

\* the batch the last update call built
LastBatch ==
    <<[t |-> "batch", at |-> now]>> \o _generate_prospect_cards(ucall.prospects)

\* the insertion patterns that match somewhere in a body
MatchingPatterns(body) ==
    {k \in 1..NumPatterns : \E i \in DOMAIN body : PatternAt(k, body, i)}

HasBodyClose(body) == \E i \in DOMAIN body : body[i].t = "body-close"

\* C14: update makes no identity check: a successful call with k prospects
\* adds exactly k card markers, so n calls with the same single-prospect list
\* leave exactly n card markers for that organization.
C14_UpdateAddsOneCardPerProspect ==
    (ucall.op = "update" /\ ucall.ok) =>
        /\ Len(CardsIn(doc)) = Len(CardsIn(ucall.doc_before)) + Len(ucall.prospects)
        /\ ucall.same_single =>
               Len(CardsFor(doc, ProspectOne.organization)) = ucall.n

\* C15: update inserts the batch at the match of the first insertion pattern,
\* in their fixed order, that matches; when none matches, immediately before
\* the closing body marker; in every case at exactly one position.
C15_FirstMatchingPatternWins ==
    (ucall.op = "update" /\ ucall.ok) =>
        LET before == ucall.doc_before.body
            matching == MatchingPatterns(before)
            first == CHOOSE k \in matching : \A m \in matching : k <= m
            leftmost == CHOOSE i \in DOMAIN before :
                            /\ PatternAt(first, before, i)
                            /\ \A j \in 1..(i - 1) : ~PatternAt(first, before, j)
        IN  /\ matching # {} => doc.body = InsertAt(before, leftmost, LastBatch)
            /\ matching = {} =>
                   \E i \in DOMAIN before :
                       /\ before[i].t = "body-close"
                       /\ doc.body = InsertAt(before, i, LastBatch)
            /\ Len(BatchesIn(doc.body)) = Len(BatchesIn(before)) + 1

\* C16: on a document with none of the structural anchors and no closing body
\* marker update returns false and leaves the document unchanged, and update
\* returns true only if the batch of cards was inserted.
C16_NoAnchorIsHardFailure ==
    ucall.op = "update" =>
        /\ (/\ ucall.doc_before.exists
            /\ MatchingPatterns(ucall.doc_before.body) = {}
            /\ ~HasBodyClose(ucall.doc_before.body)) =>
               (~ucall.ok /\ doc = ucall.doc_before)
        /\ ucall.ok =>
               /\ Len(BatchesIn(doc.body)) > Len(BatchesIn(ucall.doc_before.body))
               /\ Len(CardsIn(doc)) >= Len(CardsIn(ucall.doc_before))
                                           + Len(ucall.prospects)

\* a later update finds a place for its batch: a pattern matches or there is
\* a closing body marker
HasAnchor(body) == MatchingPatterns(body) # {} \/ HasBodyClose(body)

StatusToken(tok) == tok.t \in {"scan-timestamp", "scan-result"}

\* C29: publisher operations never remove or alter cards: after a successful
\* update the document is the previous document with the new batch inserted
\* at one place; record_scan changes nothing outside the two status
\* paragraphs; so the number of cards never decreases and an anchor that was
\* there is still there.
C29_PublisherKeepsDocument ==
    (ucall.op \in {"update", "record_scan"} /\ ucall.ok) =>
        LET before == ucall.doc_before.body
            batch == <<[t |-> "batch", at |-> ucall.at]>>
                         \o _generate_prospect_cards(ucall.prospects)
        IN  /\ ucall.op = "update" =>
                   \E i \in 1..(Len(before) + 1) : doc.body = InsertAt(before, i, batch)
            /\ ucall.op = "record_scan" =>
                   /\ Len(doc.body) = Len(before)
                   /\ \A i \in DOMAIN before :
                          /\ doc.body[i].t = before[i].t
                          /\ ~StatusToken(before[i]) => doc.body[i] = before[i]
            /\ Len(CardsIn(doc)) >= Len(CardsIn(ucall.doc_before))
            /\ HasAnchor(before) => HasAnchor(doc.body)

(***************************************************************************)
(* Claims about the scan history                                           *)
(***************************************************************************)
\* the last n elements of a sequence
LastN(seq, n) == SubSeq(seq, Len(seq) - n + 1, Len(seq))

\* C20: the stored scan history holds at most 100 records, they are the most
\* recently written ones in the order they were written, and the record just
\* written is the last element.
C20_HistoryKeepsLast100 ==
    /\ history.kind = "ok" =>
           /\ Len(history.entries) <= 100
           /\ Len(history.entries) = IF Len(hlog) < 100 THEN Len(hlog) ELSE 100
           /\ history.entries = LastN(hlog, Len(history.entries))
    /\ (lastrun.entry = "record_scan_history" /\ ~lastrun.raised) =>
           /\ history.kind = "ok"
           /\ history.entries[Len(history.entries)] = lastrun.record

\* a full history of 100 records was written to: the oldest record went and
\* the new one is last
C20_Witness ==
    /\ lastrun.entry = "record_scan_history"
    /\ lastrun.history_before.kind = "ok"
    /\ Len(lastrun.history_before.entries) = 100
    /\ Len(history.entries) = 100
    /\ history.entries[1] = lastrun.history_before.entries[2]
    /\ history.entries[100] = lastrun.record

(***************************************************************************)
(* Claims about _hash                                                      *)
(***************************************************************************)
Normalized(c) == <<lower(strip(c.org)), lower(strip(c.url))>>

\* C10: two (org, url) pairs get the same id if and only if they are equal
\* after trimming and lower-casing both fields.
C10_SameIdIffSameNormalizedPair ==
    \A i, j \in DOMAIN hcalls :
        (hcalls[i].id = hcalls[j].id) <=> (Normalized(hcalls[i]) = Normalized(hcalls[j]))

====
